---- MODULE Spec2Model ----
(***************************************************************************)
(* A model of the healthwatch pipeline: the CDC PLACES extraction client   *)
(* (src/src/extract/cdc_api_client.py), the DuckDB loader                  *)
(* (src/src/load/duckdb_loader.py) and the data quality checker            *)
(* (src/data_quality/quality_checks.py).                                   *)
(*                                                                         *)
(* Records of the remote dataset are the numbers 1..n, in the order the    *)
(* API serves them.  Time is counted in ticks; TicksPerSecond ticks make   *)
(* one second, the granularity of a snapshot's filename.                   *)
(***************************************************************************)
EXTENDS Integers, Sequences, FiniteSets, TLC

\* ------------------------------------------------------------- bounds
MaxRecords == 4
MaxLimit == 3
MaxTime == 3
TicksPerSecond == 2
MaxSnapshotRecords == 1
MaxLoaderCalls == 3
MaxQualityRows == 2
MaxCheckerCalls == 2

\* ------------------------------------------------------ configuration
MAX_RETRIES == 3
COUNTY_GIS_DATASET == "d3i6-k6z5"
\* config.TARGET_STATES: Optional[List[str]] = None
TARGET_STATES == [given |-> FALSE, list |-> <<>>]
\* status_forcelist of the session's Retry strategy
StatusForcelist == {429, 500, 502, 503, 504}
\* check_data_freshness(max_hours_old: int = 24)
DefaultMaxHoursOld == 24
\* check_date_ranges: (datetime.now() - max_date).days < 7
RecentDays == 7

VARIABLES
  \* the remote API
  dataset,      \* the records the API serves during the current fetch
  \* PLACESClient.fetch_county_data, one call
  fetchPc,      \* "idle", "request" (inside the while loop), "returned", "raised"
  fetchError,   \* the exception of a raised call, "" otherwise
  states,       \* the states argument
  limit,        \* the limit argument
  params,       \* the params dict of the call
  all_records,  \* the all_records list
  attempts,     \* retries the session has used for the request in flight
  requests,     \* history: the params of every request that was answered 2xx
  pages,        \* history: the page of every request that was answered 2xx
  df,           \* the DataFrame returned by the last returned call
  \* PLACESClient.run_extraction
  runPc,        \* "idle", "running", "done", "raised"
  saveError,    \* whether the last save_raw_data raised IOError
  \* DuckDBLoader
  warehouse,    \* the database: schema raw, table raw.places_county
  loaderResult, \* the last call of the loader and what it raised and logged
  \* DataQualityChecker
  checks_passed, \* self.checks_passed
  checks_failed, \* self.checks_failed
  results,       \* self.results: the report of the last run_all_checks
  checkResult,   \* the last call of the checker and the result it returned
  \* the entry points
  exitCode,     \* the last main() that ended: its stage and its exit status
  \* the filesystem and the clock
  files,        \* data/raw: filename -> contents
  now           \* the clock, in ticks

extractVars == <<dataset, fetchPc, fetchError, states, limit, params,
                 all_records, attempts, requests, pages, df, runPc,
                 saveError>>
loadVars == <<warehouse, loaderResult>>
checkVars == <<checks_passed, checks_failed, results, checkResult>>
vars == <<extractVars, loadVars, checkVars, exitCode, files, now>>

\* ------------------------------------------------------------ helpers
Min(a, b) == IF a < b THEN a ELSE b

Dataset(n) == [i \in 1..n |-> i]

RECURSIVE Flatten(_)
Flatten(ss) == IF ss = <<>> THEN <<>> ELSE Head(ss) \o Flatten(Tail(ss))

\* The API: the records from offset on, at most lim of them.
ServePage(data, offset, lim) ==
  SubSeq(data, offset + 1, Min(offset + lim, Len(data)))

\* ------------------------------------------- the SoQL filter (107-120)
\* [f"stateabbr='{s}'"] for s in states: one one-element LIST per state.
StateItems(st) ==
  [i \in 1..Len(st) |-> [kind |-> "list", text |-> "stateabbr='" \o st[i] \o "'"]]

RECURSIVE JoinText(_, _)
JoinText(sep, items) ==
  IF Len(items) = 0 THEN ""
  ELSE IF Len(items) = 1 THEN items[1].text
  ELSE items[1].text \o sep \o JoinText(sep, Tail(items))

\* str.join: raises TypeError when an item is not a str.
Join(sep, items) ==
  IF \E i \in 1..Len(items) : items[i].kind # "str"
  THEN [ok |-> FALSE, text |-> "TypeError"]
  ELSE [ok |-> TRUE, text |-> JoinText(sep, items)]

\* `if states:` is false for None and for the empty list.
Truthy(st) == st.given /\ Len(st.list) > 0

\* where_clause, or the TypeError of the join at line 111.
WhereClause(st) ==
  IF Truthy(st)
  THEN LET j == Join(" OR ", StateItems(st.list))
       IN  IF j.ok
           THEN [ok |-> TRUE,
                 clauses |-> <<[kind |-> "str", text |-> "(" \o j.text \o ")"]>>]
           ELSE [ok |-> FALSE, clauses |-> <<>>]
  ELSE [ok |-> TRUE, clauses |-> <<>>]

\* params = {"$limit": limit, "$offset": 0}, plus "$where" when there is a clause.
InitialParams(lim, clauses) ==
  IF Len(clauses) > 0
  THEN [k \in {"$limit", "$offset", "$where"} |->
          IF k = "$limit" THEN [int |-> lim, text |-> ""]
          ELSE IF k = "$offset" THEN [int |-> 0, text |-> ""]
          ELSE [int |-> 0, text |-> Join(" AND ", clauses).text]]
  ELSE [k \in {"$limit", "$offset"} |->
          IF k = "$limit" THEN [int |-> lim, text |-> ""]
          ELSE [int |-> 0, text |-> ""]]

Offset(p) == p["$offset"].int

\* A variant that skips a record at each page boundary.
AdvanceOffsetOffByOne(p, lim) ==
  [p EXCEPT !["$offset"] = [int |-> p["$offset"].int + lim + 1, text |-> ""]]

\* params["$offset"] += limit
AdvanceOffset(p, lim) ==
  [p EXCEPT !["$offset"] = [int |-> p["$offset"].int + lim, text |-> ""]]

\* `if not records: break`
IsEmptyPage(records) == Len(records) = 0

\* A variant without the short-page test: only an empty page ends the loop.
IsShortPageNever(records, lim) == FALSE

\* `if len(records) < limit: break`
IsShortPage(records, lim) == Len(records) < lim

\* The session retries a request while its Retry budget (total=MAX_RETRIES) lasts.
CanRetry(used) == used < MAX_RETRIES

\* A variant whose budget is renewed instead of running out.
UseRetryRenewing(used) == (used + 1) % MAX_RETRIES

\* Retry.increment(): one retry of the budget is used.
UseRetry(used) == used + 1

\* ----------------------------------------------- snapshots (161-193)
\* strftime('%Y%m%d_%H%M%S'): the timestamp at second granularity.
Filename(timestamp) ==
  "places_county_" \o ToString(timestamp \div TicksPerSecond) \o ".json"

\* pd.DataFrame(all_records) plus extracted_at, source, dataset_id.
DataFrame(records, t) ==
  [rows |-> records, extracted_at |-> t, source |-> "CDC_PLACES",
   dataset_id |-> COUNTY_GIS_DATASET]

NoFrame == DataFrame(<<>>, 0)

\* The fields of a record as the API emits them, with the type the loader's
\* DataFrame gives each, and the columns fetch_county_data adds.
Col(n, t) == [name |-> n, type |-> t]
ApiFields == <<Col("stateabbr", "VARCHAR"), Col("countyname", "VARCHAR")>>
ExtractionMetadata ==
  <<Col("extracted_at", "BIGINT"), Col("source", "VARCHAR"),
    Col("dataset_id", "VARCHAR")>>

\* df.to_json(filepath, orient="records"): one object per row, so a frame
\* without rows is written as [] and its columns are not in the file.
ToJson(frame) ==
  [parse |-> "ok", shape |-> "list",
   fields |-> IF Len(frame.rows) = 0 THEN <<>>
              ELSE ApiFields \o ExtractionMetadata,
   recs |-> frame.rows]

\* open(filepath, "w") and write: whatever was at filepath is replaced.
WriteFile(fs, name, contents) ==
  [n \in DOMAIN fs \cup {name} |-> IF n = name THEN contents ELSE fs[n]]

\* save_raw_data(df, timestamp); ioOk = FALSE is the IOError branch.
SaveRawDataFiles(fs, frame, timestamp, ioOk) ==
  IF ioOk THEN WriteFile(fs, Filename(timestamp), ToJson(frame)) ELSE fs

\* A variant that persists what was fetched before the failure.
FilesAfterFailedFetchSaving(fs, partial, t) ==
  SaveRawDataFiles(fs, DataFrame(partial, t), t, TRUE)

\* run_extraction's `except Exception: log; raise`: nothing is written.
FilesAfterFailedFetch(fs, partial, t) == fs

\* ------------------------------------------------ the loader (31-145)
\* The columns load_json_file adds to the DataFrame of a snapshot.
LoadMetadata == <<Col("loaded_at", "TIMESTAMP"), Col("source_file", "VARCHAR")>>

\* A database as _ensure_database connects to it when the file is new.
EmptyWarehouse == [schema |-> FALSE, exists |-> FALSE, columns |-> <<>>, rows |-> <<>>]

\* CREATE SCHEMA IF NOT EXISTS raw
CreateSchema(db) == [db EXCEPT !.schema = TRUE]

\* lines 91-96: the records of the parsed document; a document that is neither
\* a list nor a dict with "data" is one record.
ParsedRecords(contents) ==
  IF contents.shape \in {"list", "data"} THEN contents.recs ELSE <<0>>

\* df[name] = value: a new column goes last, an existing one is replaced.
SetColumn(cols, c) ==
  IF \E i \in 1..Len(cols) : cols[i].name = c.name
  THEN [i \in 1..Len(cols) |-> IF cols[i].name = c.name THEN c ELSE cols[i]]
  ELSE Append(cols, c)

\* lines 90-100: the DataFrame of the snapshot with loaded_at and source_file.
LoadFrame(contents, name, t) ==
  [columns |-> SetColumn(SetColumn(contents.fields, LoadMetadata[1]),
                         LoadMetadata[2]),
   rows |-> [i \in 1..Len(ParsedRecords(contents)) |->
               [source_file |-> name, rec |-> ParsedRecords(contents)[i],
                loaded_at |-> t, nulls |-> {}]]]

ColumnNames(cols) == [i \in 1..Len(cols) |-> cols[i].name]

\* The rows of a frame as SELECT * FROM df yields them: the cells of a row in
\* the order of the frame's columns, each named here by the column it is from.
SelectAll(frame) ==
  [i \in 1..Len(frame.rows) |->
     [source_file |-> frame.rows[i].source_file, rec |-> frame.rows[i].rec,
      loaded_at |-> frame.rows[i].loaded_at,
      cells |-> ColumnNames(frame.columns), nulls |-> frame.rows[i].nulls]]

\* The cast INSERT applies to a value: to the same type and to VARCHAR it
\* succeeds; the text of a snapshot is no number and no timestamp.
CastOk(from, to) == from = to \/ to = "VARCHAR"

\* A variant that replaces the table when the frame does not fit it.
InsertIntoReplacing(db, frame) ==
  IF ~db.schema \/ ~db.exists
  THEN [db |-> db, error |-> "CatalogError"]
  ELSE IF Len(frame.columns) # Len(db.columns)
  THEN [db |-> [db EXCEPT !.columns = frame.columns, !.rows = SelectAll(frame)],
        error |-> ""]
  ELSE IF \E i \in 1..Len(db.columns) :
            ~CastOk(frame.columns[i].type, db.columns[i].type)
  THEN [db |-> db, error |-> "ConversionError"]
  ELSE [db |-> [db EXCEPT !.rows = db.rows \o SelectAll(frame)], error |-> ""]

\* INSERT INTO raw.places_county SELECT * FROM df: the columns are matched by
\* position, not by name; the statement appends every row or none.
InsertInto(db, frame) ==
  IF ~db.schema \/ ~db.exists
  THEN [db |-> db, error |-> "CatalogError"]
  ELSE IF Len(frame.columns) # Len(db.columns)
  THEN [db |-> db, error |-> "BinderError"]
  ELSE IF \E i \in 1..Len(db.columns) :
            ~CastOk(frame.columns[i].type, db.columns[i].type)
  THEN [db |-> db, error |-> "ConversionError"]
  ELSE [db |-> [db EXCEPT !.rows = db.rows \o SelectAll(frame)], error |-> ""]

\* `"does not exist" in str(table_error).lower()`
DoesNotExist(error) == error = "CatalogError"

\* A variant that creates the table from the frame's columns without its rows.
CreateTableWithoutRows(db, frame) ==
  IF ~db.schema
  THEN [db |-> db, error |-> "CatalogError"]
  ELSE [db |-> [db EXCEPT !.exists = TRUE, !.columns = frame.columns,
                          !.rows = <<>>],
        error |-> ""]

\* CREATE TABLE raw.places_county AS SELECT * FROM df; without the schema raw
\* the statement fails.
CreateTable(db, frame) ==
  IF ~db.schema
  THEN [db |-> db, error |-> "CatalogError"]
  ELSE [db |-> [db EXCEPT !.exists = TRUE, !.columns = frame.columns,
                          !.rows = SelectAll(frame)],
        error |-> ""]

\* load_json_file(filepath): the database after the call and the exception it
\* raised, "" when it returned.
LoadJsonFileResult(db, fs, name, t) ==
  IF name \notin DOMAIN fs
  THEN [db |-> db, error |-> "IOError"]
  ELSE IF fs[name].parse # "ok"
  THEN [db |-> db, error |-> "JSONDecodeError"]
  ELSE LET frame == LoadFrame(fs[name], name, t)
           ins == InsertInto(db, frame)
       IN  IF ins.error = "" THEN ins
           ELSE IF DoesNotExist(ins.error) THEN CreateTable(db, frame)
           ELSE ins

\* `"places" in filepath.name`
IsPlacesFile(name) ==
  \E i \in 1..(Len(name) - 5) : SubSeq(name, i, i + 5) = "places"

\* The loop of load_raw_directory over json_files in the order `order`:
\* the database after it and the outcome logged for each file.
RECURSIVE LoadFiles(_, _, _, _, _)
LoadFiles(order, db, fs, t, outcomes) ==
  IF order = <<>>
  THEN [db |-> db, outcomes |-> outcomes]
  ELSE LET name == Head(order)
           res == LoadJsonFileResult(db, fs, name, t)
       IN  IF ~IsPlacesFile(name)
           THEN LoadFiles(Tail(order), db, fs, t,
                          Append(outcomes, <<name, "skipped">>))
           ELSE IF res.error = ""
           THEN LoadFiles(Tail(order), res.db, fs, t,
                          Append(outcomes, <<name, "loaded">>))
           ELSE LoadFiles(Tail(order), db, fs, t,
                          Append(outcomes, <<name, "failed">>))

NoResult == [calls |-> 0, op |-> "none", file |-> "", error |-> "",
             outcomes |-> <<>>]

\* DataQualityChecker.__init__ (38-42): self.results = {}, no call made yet,
\* no main() ended yet.
NoReport ==
  [timestamp |-> 0, checks |-> <<>>,
   summary |-> [total_checks |-> 0, passed |-> 0, failed |-> 0, status |-> ""]]
NoCheck == [calls |-> 0, op |-> "none", max_hours_old |-> 0, checks |-> <<>>]
NoExit == [stage |-> "none", code |-> 0]

\* ------------------------------------------------------------- Init
Init ==
  /\ dataset = <<>>
  /\ fetchPc = "idle"
  /\ fetchError = ""
  /\ states = TARGET_STATES
  /\ limit = 1
  /\ params = InitialParams(1, <<>>)
  /\ all_records = <<>>
  /\ attempts = 0
  /\ requests = <<>>
  /\ pages = <<>>
  /\ df = NoFrame
  /\ runPc = "idle"
  /\ saveError = FALSE
  /\ warehouse = EmptyWarehouse
  /\ loaderResult = NoResult
  /\ checks_passed = 0
  /\ checks_failed = 0
  /\ results = NoReport
  /\ checkResult = NoCheck
  /\ exitCode = NoExit
  /\ files = <<>>
  /\ now = 0

\* ------------------------------------------------------------ inputs
PageSizes == 1..MaxLimit
StatesArgs ==
  {[given |-> FALSE, list |-> <<>>], [given |-> TRUE, list |-> <<>>],
   [given |-> TRUE, list |-> <<"WI">>], [given |-> TRUE, list |-> <<"WI", "MN">>]}

\* ------------------------------------------------------------ actions
\* The clock advances.
Tick ==
  /\ now < MaxTime
  /\ now' = now + 1
  /\ UNCHANGED <<extractVars, loadVars, checkVars, exitCode, files>>

NoCallInProgress == fetchPc # "request" /\ runPc # "running"

\* fetch_county_data up to its first request (lines 104-123).
BeginFetch(st, lim, n) ==
  /\ dataset' = Dataset(n)
  /\ states' = st
  /\ limit' = lim
  /\ all_records' = <<>>
  /\ attempts' = 0
  /\ requests' = <<>>
  /\ pages' = <<>>
  /\ df' = NoFrame
  /\ LET w == WhereClause(st)
     IN  IF w.ok
         THEN /\ params' = InitialParams(lim, w.clauses)
              /\ fetchPc' = "request"
              /\ fetchError' = ""
         ELSE /\ params' = InitialParams(lim, <<>>)
              /\ fetchPc' = "raised"
              /\ fetchError' = "TypeError"

\* A direct call of fetch_county_data(states, limit=lim).
FetchCountyData(st, lim, n) ==
  /\ NoCallInProgress
  /\ BeginFetch(st, lim, n)
  /\ runPc' = "idle"
  /\ UNCHANGED <<saveError, loadVars, checkVars, exitCode, files, now>>

\* run_extraction: fetch_county_data(states=config.TARGET_STATES), then
\* save_raw_data(df).  The page size is config.DEFAULT_LIMIT, a configured
\* value, drawn here from the page sizes of the model.
RunExtraction(lim, n) ==
  /\ NoCallInProgress
  /\ BeginFetch(TARGET_STATES, lim, n)
  /\ runPc' = IF WhereClause(TARGET_STATES).ok THEN "running" ELSE "raised"
  /\ saveError' = FALSE
  /\ UNCHANGED <<loadVars, checkVars, exitCode, files, now>>

\* What run_extraction does once fetch_county_data has returned `frame`
\* (lines 210-217) or raised (lines 219-221); nothing for a direct call.
AfterFetch(pcNext, frame, partial) ==
  IF runPc = "running" /\ pcNext = "returned"
  THEN \E ioOk \in BOOLEAN :
         /\ files' = SaveRawDataFiles(files, frame, now, ioOk)
         /\ saveError' = ~ioOk
         /\ runPc' = IF ioOk THEN "done" ELSE "raised"
  ELSE IF runPc = "running" /\ pcNext = "raised"
  THEN /\ files' = FilesAfterFailedFetch(files, partial, now)
       /\ saveError' = FALSE
       /\ runPc' = "raised"
  ELSE UNCHANGED <<files, saveError, runPc>>

\* The request in flight is answered 2xx with the page at the current offset
\* (lines 125-143).
PageArrives ==
  /\ fetchPc = "request"
  /\ LET records == ServePage(dataset, Offset(params), limit)
         total == all_records \o records
     IN  /\ requests' = Append(requests, params)
         /\ pages' = Append(pages, records)
         /\ IF IsEmptyPage(records)
            THEN /\ fetchPc' = "returned"
                 /\ df' = DataFrame(all_records, now)
                 /\ AfterFetch("returned", DataFrame(all_records, now), all_records)
                 /\ UNCHANGED <<all_records, params, attempts>>
            ELSE IF IsShortPage(records, limit)
            THEN /\ all_records' = total
                 /\ fetchPc' = "returned"
                 /\ df' = DataFrame(total, now)
                 /\ AfterFetch("returned", DataFrame(total, now), total)
                 /\ UNCHANGED <<params, attempts>>
            ELSE /\ all_records' = total
                 /\ params' = AdvanceOffset(params, limit)
                 /\ attempts' = 0
                 /\ AfterFetch("request", NoFrame, total)
                 /\ UNCHANGED <<fetchPc, df>>
  /\ UNCHANGED <<dataset, fetchError, states, limit, loadVars, checkVars, exitCode, now>>

\* The request in flight fails transiently (a status of the forcelist, a
\* connection failure or a timeout) and the session retries it, same params.
RetryRequest(status) ==
  /\ fetchPc = "request"
  /\ CanRetry(attempts)
  /\ attempts' = UseRetry(attempts)
  /\ UNCHANGED <<dataset, fetchPc, fetchError, states, limit, params,
                 all_records, requests, pages, df, runPc, saveError,
                 loadVars, checkVars, exitCode, files, now>>

\* The request in flight fails for good: the retries are used up (RetryError,
\* ConnectionError), or the status is an error outside the forcelist
\* (raise_for_status: HTTPError).  Lines 145-147 log and re-raise.
RequestFails(error) ==
  /\ fetchPc = "request"
  /\ error \in {"RetryError", "ConnectionError"} => ~CanRetry(attempts)
  /\ fetchPc' = "raised"
  /\ fetchError' = error
  /\ AfterFetch("raised", NoFrame, all_records)
  /\ UNCHANGED <<dataset, states, limit, params, all_records, attempts,
                 requests, pages, df, loadVars, checkVars, exitCode, now>>

\* A direct call of save_raw_data(df, timestamp); timestamp=None is now.
SaveRawData(n, given, timestamp) ==
  /\ NoCallInProgress
  /\ \E ioOk \in BOOLEAN :
       /\ files' = SaveRawDataFiles(files, DataFrame(Dataset(n), now),
                                    IF given THEN timestamp ELSE now, ioOk)
       /\ saveError' = ~ioOk
  /\ runPc' = "idle"
  /\ UNCHANGED <<dataset, fetchPc, fetchError, states, limit, params,
                 all_records, attempts, requests, pages, df, loadVars, checkVars, exitCode, now>>

\* The request in flight is answered, one way or another: every request has
\* a timeout (DEFAULT_TIMEOUT), so it does not stay in flight.
RequestAnswered ==
  \/ PageArrives
  \/ \E status \in StatusForcelist \cup {0} : RetryRequest(status)
  \/ \E error \in {"RetryError", "ConnectionError", "HTTPError"} :
       RequestFails(error)

\* ---------------------------------------------------- loader actions
\* The files that may be in data/raw: snapshots under their timestamp-derived
\* names, and a JSON file that is not a PLACES snapshot.
SnapshotNames == {Filename(t) : t \in 0..MaxTime}
FileNames == SnapshotNames \cup {"notes.json"}

Unparseable == [parse |-> "bad", shape |-> "none", fields |-> <<>>, recs |-> <<>>]
ErrorObject ==
  [parse |-> "ok", shape |-> "object", fields |-> <<Col("error", "VARCHAR")>>,
   recs |-> <<>>]
Snapshot(fields, n) ==
  [parse |-> "ok", shape |-> "list",
   fields |-> IF n = 0 THEN <<>> ELSE fields, recs |-> Dataset(n)]

Reordered == <<ApiFields[2], ApiFields[1]>>
Renamed == <<ApiFields[1], Col("casthma_crudeprev", "VARCHAR")>>
Wider == Append(ApiFields, Col("casthma_crudeprev", "VARCHAR"))
Retyped == <<ApiFields[1], Col("countyname", "BIGINT")>>
Schemas == {ApiFields, Reordered, Renamed, Wider, Retyped}

SnapshotContents ==
  {Unparseable, ErrorObject}
    \cup {Snapshot(fields, n) : fields \in Schemas, n \in 0..MaxSnapshotRecords}

\* What a file of data/raw may hold; a file that is no snapshot is never read.
ContentsFor(name) ==
  IF IsPlacesFile(name) THEN SnapshotContents ELSE {ErrorObject}

Orders(S) ==
  {o \in [1..Cardinality(S) -> S] :
     \A i, j \in 1..Cardinality(S) : i # j => o[i] # o[j]}

LoaderIdle == loaderResult.calls < MaxLoaderCalls

\* A file appears in data/raw under a name that is not taken.
SnapshotArrives(name, contents) ==
  /\ name \notin DOMAIN files
  /\ files' = WriteFile(files, name, contents)
  /\ UNCHANGED <<extractVars, loadVars, checkVars, exitCode, now>>

\* create_raw_schema()
CreateRawSchema ==
  /\ LoaderIdle
  /\ warehouse' = CreateSchema(warehouse)
  /\ loaderResult' = [calls |-> loaderResult.calls + 1,
                      op |-> "create_raw_schema", file |-> "", error |-> "",
                      outcomes |-> <<>>]
  /\ UNCHANGED <<extractVars, checkVars, exitCode, files, now>>

\* load_json_file(name)
LoadJsonFile(name) ==
  /\ LoaderIdle
  /\ LET res == LoadJsonFileResult(warehouse, files, name, now)
     IN  /\ warehouse' = res.db
         /\ loaderResult' = [calls |-> loaderResult.calls + 1,
                             op |-> "load_json_file", file |-> name,
                             error |-> res.error, outcomes |-> <<>>]
  /\ UNCHANGED <<extractVars, checkVars, exitCode, files, now>>

\* load_raw_directory(); glob yields the files in an order of its own.  An
\* absent data/raw and an empty one both end the call with nothing loaded.
LoadRawDirectory(order) ==
  /\ LoaderIdle
  /\ LET res == LoadFiles(order, warehouse, files, now, <<>>)
     IN  /\ warehouse' = res.db
         /\ loaderResult' = [calls |-> loaderResult.calls + 1,
                             op |-> "load_raw_directory", file |-> "",
                             error |-> "", outcomes |-> res.outcomes]
  /\ UNCHANGED <<extractVars, checkVars, exitCode, files, now>>

\* main() of duckdb_loader.py returns after close(): no line of it exits with
\* a status, whatever load_raw_directory logged.
LoaderExitCode(outcomes) == 0

\* main() of duckdb_loader.py, lines 173-182: a new loader, create_raw_schema,
\* load_raw_directory, get_record_counts (which logs and never raises), close.
LoaderMain(order) ==
  /\ LoaderIdle
  /\ LET res == LoadFiles(order, CreateSchema(warehouse), files, now, <<>>)
     IN  /\ warehouse' = res.db
         /\ loaderResult' = [calls |-> loaderResult.calls + 1, op |-> "main",
                             file |-> "", error |-> "",
                             outcomes |-> res.outcomes]
         /\ exitCode' = [stage |-> "loader",
                         code |-> LoaderExitCode(res.outcomes)]
  /\ UNCHANGED <<extractVars, checkVars, files, now>>

\* main() of cdc_api_client.py, lines 224-227: run_extraction() re-raises
\* (line 221) and the uncaught exception ends the interpreter with status 1.
ExtractionExitCode(pc) == IF pc = "raised" THEN 1 ELSE 0

\* ------------------------------------- the quality checker (24-295)
\* src/data_quality/quality_checks.py.  A check result is the dict the check
\* returns; instants stand for their text (str(last_load), isoformat()).
TicksPerHour == 3600 * TicksPerSecond
TicksPerDay == 24 * TicksPerHour

\* A query on raw.places_county raises a catalog error without the table.
TableMissing(db) == ~(db.schema /\ db.exists)

HasColumn(db, name) == \E i \in 1..Len(db.columns) : db.columns[i].name = name

LoadedAt(db) == {db.rows[i].loaded_at : i \in 1..Len(db.rows)}
SetMax(S) == CHOOSE x \in S : \A y \in S : y <= x
SetMin(S) == CHOOSE x \in S : \A y \in S : x <= y

\* SUM(CASE WHEN <column> IS NULL THEN 1 ELSE 0 END) over a table with rows.
NullCount(db, name) ==
  Cardinality({i \in 1..Len(db.rows) : name \in db.rows[i].nulls})

\* round(hours_old, 2), in hundredths of an hour.
RoundHours(age) == (2 * 100 * age + TicksPerHour) \div (2 * TicksPerHour)

\* timedelta.days: whole days, rounded down.
Days(age) == age \div TicksPerDay

\* lines 71, 80, 86: the except branch of a check.
CheckError(name, error) ==
  [result |-> [name |-> name, status |-> "ERROR", error |-> error],
   passed |-> 0, failed |-> 1]

\* line 68: hours_old <= max_hours_old
IsFreshStrictly(age, max_hours_old) == age < max_hours_old * TicksPerHour
IsFresh(age, max_hours_old) == age <= max_hours_old * TicksPerHour

\* check_data_freshness(max_hours_old), lines 44-88.  MAX(loaded_at) of a table
\* without rows is NULL, the generator of line 61 yields nothing and max()
\* raises ValueError; so last_load is never None at line 63.
CheckDataFreshnessResult(db, t, max_hours_old) ==
  IF TableMissing(db) THEN CheckError("Data Freshness", "CatalogException")
  ELSE IF db.rows = <<>> THEN CheckError("Data Freshness", "ValueError")
  ELSE LET last_load == SetMax(LoadedAt(db))
           age == t - last_load
       IN  IF IsFresh(age, max_hours_old)
           THEN [result |-> [name |-> "Data Freshness", status |-> "PASS",
                             last_load |-> last_load,
                             hours_old |-> RoundHours(age)],
                 passed |-> 1, failed |-> 0]
           ELSE [result |-> [name |-> "Data Freshness", status |-> "FAIL",
                             reason |-> "Data is too old",
                             hours_old |-> RoundHours(age),
                             max |-> max_hours_old],
                 passed |-> 0, failed |-> 1]

\* check_record_counts(), lines 90-121.
CheckRecordCountsResult(db) ==
  IF TableMissing(db) THEN CheckError("Record Counts", "CatalogException")
  ELSE LET places_count == Len(db.rows)
       IN  IF places_count > 0
           THEN [result |-> [name |-> "Record Counts", status |-> "PASS",
                             places_records |-> places_count,
                             total_records |-> places_count],
                 passed |-> 1, failed |-> 0]
           ELSE [result |-> [name |-> "Record Counts", status |-> "FAIL",
                             reason |-> "No records found"],
                 passed |-> 0, failed |-> 1]

\* The columns the query of check_null_values names.
NullCheckColumns == {"stateabbr", "countyname", "diabetes_crudeprev"}

\* check_null_values(), lines 123-163.  A SUM over no rows is NULL and NULL
\* == 0 is false.  The else branch counts the failure (line 152) and then
\* reads covid_nulls, a name that is not defined: NameError, and the except
\* branch counts the failure once more (line 161).
CheckNullValuesResult(db) ==
  IF TableMissing(db) THEN CheckError("Null Values Check", "CatalogException")
  ELSE IF \E name \in NullCheckColumns : ~HasColumn(db, name)
  THEN CheckError("Null Values Check", "BinderException")
  ELSE IF /\ db.rows # <<>>
          /\ NullCount(db, "stateabbr") = 0
          /\ NullCount(db, "countyname") = 0
  THEN [result |-> [name |-> "Null Values Check", status |-> "PASS",
                    null_states |-> NullCount(db, "stateabbr"),
                    null_counties |-> NullCount(db, "countyname"),
                    null_diabetes |-> NullCount(db, "diabetes_crudeprev")],
        passed |-> 1, failed |-> 0]
  ELSE [result |-> CheckError("Null Values Check", "NameError").result,
        passed |-> 0, failed |-> 2]

\* line 188: (datetime.now() - max_date).days < 7
IsRecentWithinDay(age) == Days(age) < RecentDays + 1
IsRecent(age) == Days(age) < RecentDays

\* check_date_ranges(), lines 165-208.  DATE(loaded_at) is the day of the
\* instant.
CheckDateRangesResult(db, t) ==
  IF TableMissing(db) THEN CheckError("Date Range Check", "CatalogException")
  ELSE IF db.rows = <<>>
  THEN [result |-> [name |-> "Date Range Check", status |-> "FAIL",
                    reason |-> "No date data"],
        passed |-> 0, failed |-> 1]
  ELSE LET min_date == SetMin(LoadedAt(db))
           max_date == SetMax(LoadedAt(db))
           distinct_dates ==
             Cardinality({at \div TicksPerDay : at \in LoadedAt(db)})
           is_recent == IsRecent(t - max_date)
       IN  [result |-> [name |-> "Date Range Check",
                        status |-> IF is_recent THEN "PASS" ELSE "FAIL",
                        min_date |-> min_date, max_date |-> max_date,
                        distinct_dates |-> distinct_dates],
            passed |-> IF is_recent THEN 1 ELSE 0,
            failed |-> IF is_recent THEN 0 ELSE 1]

\* lines 219-224: the checks run_all_checks calls, in its order.
AllChecksButDates(db, t) ==
  <<CheckDataFreshnessResult(db, t, DefaultMaxHoursOld),
    CheckRecordCountsResult(db),
    CheckNullValuesResult(db)>>
AllChecks(db, t) ==
  <<CheckDataFreshnessResult(db, t, DefaultMaxHoursOld),
    CheckRecordCountsResult(db),
    CheckNullValuesResult(db),
    CheckDateRangesResult(db, t)>>

RECURSIVE SumOf(_, _)
SumOf(seq, field) ==
  IF seq = <<>> THEN 0 ELSE seq[1][field] + SumOf(Tail(seq), field)

\* run_all_checks() on a checker whose counters are passed and failed, lines
\* 210-237.
RunAllChecksResult(db, t, passed, failed) ==
  LET checks == AllChecks(db, t)
      p == passed + SumOf(checks, "passed")
      f == failed + SumOf(checks, "failed")
  IN  [results |->
         [timestamp |-> t,
          checks |-> [i \in 1..Len(checks) |-> checks[i].result],
          summary |-> [total_checks |-> Len(checks), passed |-> p,
                       failed |-> f,
                       status |-> IF f = 0 THEN "PASS" ELSE "FAIL"]],
       passed |-> p, failed |-> f]

CheckerIdle == checkResult.calls < MaxCheckerCalls

\* A direct call of one check: the counters move, the result is returned.
\* max_hours_old is the argument of check_data_freshness, 0 in a call that
\* has no freshness check.
DirectCheck(op, max_hours_old, res) ==
  /\ CheckerIdle
  /\ checks_passed' = checks_passed + res.passed
  /\ checks_failed' = checks_failed + res.failed
  /\ checkResult' = [calls |-> checkResult.calls + 1, op |-> op,
                     max_hours_old |-> max_hours_old,
                     checks |-> <<res.result>>]
  /\ UNCHANGED <<extractVars, loadVars, results, exitCode, files, now>>

CheckDataFreshness(max_hours_old) ==
  DirectCheck("check_data_freshness", max_hours_old,
              CheckDataFreshnessResult(warehouse, now, max_hours_old))

CheckRecordCounts ==
  DirectCheck("check_record_counts", 0, CheckRecordCountsResult(warehouse))

CheckNullValues ==
  DirectCheck("check_null_values", 0, CheckNullValuesResult(warehouse))

CheckDateRanges ==
  DirectCheck("check_date_ranges", 0,
              CheckDateRangesResult(warehouse, now))

\* run_all_checks()
RunAllChecks ==
  /\ CheckerIdle
  /\ LET res == RunAllChecksResult(warehouse, now, checks_passed, checks_failed)
     IN  /\ checks_passed' = res.passed
         /\ checks_failed' = res.failed
         /\ results' = res.results
         /\ checkResult' = [calls |-> checkResult.calls + 1,
                            op |-> "run_all_checks",
                            max_hours_old |-> DefaultMaxHoursOld,
                            checks |-> res.results.checks]
  /\ UNCHANGED <<extractVars, loadVars, exitCode, files, now>>

\* line 294: sys.exit(0 if results["summary"]["status"] == "PASS" else 1)
QualityExitCode(report) == IF report.summary.status = "PASS" THEN 0 ELSE 1

\* main() of quality_checks.py, lines 284-295: a new checker, run_all_checks,
\* the report printed and saved to data_quality/report.json, exit.
QualityMain ==
  /\ CheckerIdle
  /\ LET res == RunAllChecksResult(warehouse, now, 0, 0)
     IN  /\ checks_passed' = res.passed
         /\ checks_failed' = res.failed
         /\ results' = res.results
         /\ checkResult' = [calls |-> checkResult.calls + 1, op |-> "main",
                            max_hours_old |-> DefaultMaxHoursOld,
                            checks |-> res.results.checks]
         /\ exitCode' = [stage |-> "quality",
                         code |-> QualityExitCode(res.results)]
  /\ UNCHANGED <<extractVars, loadVars, files, now>>

\* The warehouses the checker is run on: the database without the table, and
\* a table of up to MaxQualityRows rows in load order, of the ages of
\* AgeSamples at the instant QualityNow, with or without NULLs in the key
\* columns, with or without the column diabetes_crudeprev.
QualityNow == (RecentDays + 3) * TicksPerDay
AgeSamples ==
  {TicksPerHour,
   DefaultMaxHoursOld * TicksPerHour, DefaultMaxHoursOld * TicksPerHour + 1,
   RecentDays * TicksPerDay - 1, RecentDays * TicksPerDay,
   RecentDays * TicksPerDay + 1}
NullKinds == {{}, {"stateabbr"}, {"countyname"}}
QualityColumns ==
  {ApiFields \o LoadMetadata,
   ApiFields \o <<Col("diabetes_crudeprev", "VARCHAR")>> \o LoadMetadata}
MaxHoursOldArgs == {DefaultMaxHoursOld, 1}

QualityRows ==
  UNION {{[i \in 1..n |->
             [source_file |-> Filename(0), rec |-> i,
              loaded_at |-> QualityNow - ages[i], nulls |-> nulls[i]]] :
            ages \in {a \in [1..n -> AgeSamples] :
                        \A i, j \in 1..n : i < j => a[i] >= a[j]},
            nulls \in [1..n -> NullKinds]} : n \in 0..MaxQualityRows}

QualityTable(cols, rows) ==
  [schema |-> TRUE, exists |-> TRUE, columns |-> cols,
   rows |-> [i \in 1..Len(rows) |->
               [source_file |-> rows[i].source_file, rec |-> rows[i].rec,
                loaded_at |-> rows[i].loaded_at,
                cells |-> ColumnNames(cols), nulls |-> rows[i].nulls]]]

QualityWarehouses ==
  {EmptyWarehouse, CreateSchema(EmptyWarehouse)}
    \cup {QualityTable(cols, rows) : cols \in QualityColumns, rows \in QualityRows}

\* A checker connected to a warehouse that was loaded earlier.
QualityInit ==
  /\ dataset = <<>>
  /\ fetchPc = "idle"
  /\ fetchError = ""
  /\ states = TARGET_STATES
  /\ limit = 1
  /\ params = InitialParams(1, <<>>)
  /\ all_records = <<>>
  /\ attempts = 0
  /\ requests = <<>>
  /\ pages = <<>>
  /\ df = NoFrame
  /\ runPc = "idle"
  /\ saveError = FALSE
  /\ warehouse \in QualityWarehouses
  /\ loaderResult = NoResult
  /\ checks_passed = 0
  /\ checks_failed = 0
  /\ results = NoReport
  /\ checkResult = NoCheck
  /\ exitCode = NoExit
  /\ files = <<>>
  /\ now = QualityNow

\* ---------------------------------------------------- specifications
\* Direct calls of fetch_county_data.
FetchNext ==
  \/ \E st \in StatesArgs, lim \in PageSizes, n \in 0..MaxRecords :
       FetchCountyData(st, lim, n)
  \/ RequestAnswered

FetchSpec == Init /\ [][FetchNext]_vars

FetchFairSpec == FetchSpec /\ WF_vars(RequestAnswered)

\* Runs of run_extraction.
RunNext ==
  \/ Tick
  \/ \E lim \in PageSizes, n \in 0..MaxRecords : RunExtraction(lim, n)
  \/ RequestAnswered

RunSpec == Init /\ [][RunNext]_vars

\* Direct calls of save_raw_data.
SaveNext ==
  \/ Tick
  \/ \E n \in 0..MaxRecords, given \in BOOLEAN, timestamp \in 0..MaxTime :
       SaveRawData(n, given, timestamp)

SaveSpec == Init /\ [][SaveNext]_vars

\* Calls of the loader on a data/raw that fills with files.  The clock stands
\* still here: every row is loaded at the same instant.
LoadNext ==
  \/ \E name \in FileNames : \E contents \in ContentsFor(name) :
       SnapshotArrives(name, contents)
  \/ CreateRawSchema
  \/ \E name \in FileNames : LoadJsonFile(name)
  \/ \E order \in Orders(DOMAIN files) : LoadRawDirectory(order)
  \/ \E order \in Orders(DOMAIN files) : LoaderMain(order)

LoadSpec == Init /\ [][LoadNext]_vars

\* Calls of the checker on a warehouse that was loaded earlier.  The clock
\* stands still at QualityNow.
QualityNext ==
  \/ \E max_hours_old \in MaxHoursOldArgs : CheckDataFreshness(max_hours_old)
  \/ CheckRecordCounts
  \/ CheckNullValues
  \/ CheckDateRanges
  \/ RunAllChecks
  \/ QualityMain

QualitySpec == QualityInit /\ [][QualityNext]_vars

\* The pipeline: every operation of the client, of the loader and of the
\* checker.
Next ==
  \/ Tick
  \/ \E st \in StatesArgs, lim \in PageSizes, n \in 0..MaxRecords :
       FetchCountyData(st, lim, n)
  \/ \E lim \in PageSizes, n \in 0..MaxRecords : RunExtraction(lim, n)
  \/ RequestAnswered
  \/ \E n \in 0..MaxRecords, given \in BOOLEAN, timestamp \in 0..MaxTime :
       SaveRawData(n, given, timestamp)
  \/ CreateRawSchema
  \/ \E name \in FileNames : LoadJsonFile(name)
  \/ \E order \in Orders(DOMAIN files) : LoadRawDirectory(order)
  \/ \E order \in Orders(DOMAIN files) : LoaderMain(order)
  \/ \E max_hours_old \in MaxHoursOldArgs : CheckDataFreshness(max_hours_old)
  \/ CheckRecordCounts
  \/ CheckNullValues
  \/ CheckDateRanges
  \/ RunAllChecks
  \/ QualityMain

Spec == Init /\ [][Next]_vars

\* ------------------------------------------------------------ claims
\* C1: fetch_county_data returns exactly the concatenation, in request order,
\* of the pages it received, which is the whole dataset; the requests are at
\* offsets 0, limit, 2*limit, ... and the offset has advanced by limit once
\* for every full page received and never otherwise.
C1_ReturnsConcatenationOfPages ==
  /\ fetchPc \in {"request", "returned"} => all_records = Flatten(pages)
  /\ \A i \in 1..Len(requests) :
       /\ Offset(requests[i]) = (i - 1) * limit
       /\ requests[i]["$limit"].int = limit
  /\ fetchPc = "request" =>
       Offset(params) =
         limit * Cardinality({i \in 1..Len(pages) : Len(pages[i]) = limit})
  /\ fetchPc = "returned" => df.rows = Flatten(pages) /\ df.rows = dataset

C1_Witness ==
  fetchPc = "returned" /\ Len(pages) >= 3 /\ Len(df.rows) >= 4

\* C2: the loop stops at the first page that is empty or short, so a returned
\* call has made floor(N/limit)+1 requests; when N is a multiple of limit the
\* last of them is answered by an empty page and the call returns normally.
C2_RequestCount ==
  /\ \A i \in 1..(Len(pages) - 1) : Len(pages[i]) = limit
  /\ fetchPc = "returned" =>
       /\ Len(requests) = (Len(dataset) \div limit) + 1
       /\ Len(pages[Len(pages)]) < limit
       /\ fetchError = ""
       /\ Len(dataset) % limit = 0 => pages[Len(pages)] = <<>>
       /\ Len(dataset) < limit => Len(requests) = 1

C2_Witness ==
  /\ fetchPc = "returned"
  /\ Len(dataset) >= 2 /\ Len(dataset) % limit = 0
  /\ Len(requests) = (Len(dataset) \div limit) + 1
  /\ pages[Len(pages)] = <<>>

\* C3: a run_extraction whose fetch fails terminally raises and writes no
\* snapshot: no step of a run that does not complete it changes data/raw.
C3_NoPartialSnapshot ==
  [][/\ (runPc = "running" /\ fetchPc' = "raised") => runPc' = "raised"
     /\ (runPc = "running" /\ runPc' # "done") => files' = files]_vars

C3_Witness ==
  /\ runPc = "raised" /\ fetchPc = "raised"
  /\ Len(all_records) > 0
  /\ DOMAIN files # {}

\* C4: every call of fetch_county_data eventually returns or raises, and a
\* request is never retried more than MAX_RETRIES times.
C4_FetchTerminates ==
  /\ [](attempts <= MAX_RETRIES)
  /\ (fetchPc = "request") ~> (fetchPc \in {"returned", "raised"})

C4_Witness ==
  /\ fetchPc = "raised" /\ fetchError = "RetryError"
  /\ attempts = MAX_RETRIES
  /\ Len(pages) >= 1

\* C5: save_raw_data never overwrites an existing snapshot: every file of
\* data/raw keeps the contents it was created with.
C5_NoSilentOverwrite ==
  [][\A f \in DOMAIN files : f \in DOMAIN files' /\ files'[f] = files[f]]_vars

\* C6: with a non-empty list of states the page requests carry a $where that
\* is the parenthesised OR of one stateabbr predicate per state and the call
\* does not fail building it; without states no $where is sent.
ExpectedWhere(st) ==
  "(" \o JoinText(" OR ", [i \in 1..Len(st) |->
                            [kind |-> "str", text |-> "stateabbr='" \o st[i] \o "'"]])
      \o ")"

C6_StatesFilterSent ==
  fetchPc # "idle" =>
    IF Truthy(states)
    THEN /\ fetchError # "TypeError"
         /\ "$where" \in DOMAIN params
         /\ params["$where"].text = ExpectedWhere(states.list)
    ELSE "$where" \notin DOMAIN params

\* A step that is a call of load_json_file on the file `name`.
IsLoadJsonFileStep(name) ==
  /\ loaderResult'.calls = loaderResult.calls + 1
  /\ loaderResult'.op = "load_json_file"
  /\ loaderResult'.file = name

\* The table holds exactly the records of the snapshot `name`, once each and
\* in order, under the snapshot's fields plus loaded_at and source_file.
TableIsSnapshot(db, fs, name) ==
  /\ db.exists
  /\ {db.columns[i].name : i \in 1..Len(db.columns)} =
       {fs[name].fields[i].name : i \in 1..Len(fs[name].fields)}
         \cup {"loaded_at", "source_file"}
  /\ Len(db.columns) = Len(fs[name].fields) + 2
  /\ Len(db.rows) = Len(ParsedRecords(fs[name]))
  /\ \A i \in 1..Len(db.rows) :
       /\ db.rows[i].rec = ParsedRecords(fs[name])[i]
       /\ db.rows[i].source_file = name

\* A snapshot: a parseable document that is a list of records.
IsSnapshot(contents) == contents.parse = "ok" /\ contents.shape = "list"

\* C7 as stated: load_json_file of a snapshot while the table does not exist
\* creates the table with the snapshot's fields plus loaded_at and
\* source_file, holding exactly the snapshot's records.
C7_FirstLoadCreatesTable ==
  [][\A name \in DOMAIN files :
       (IsLoadJsonFileStep(name) /\ IsSnapshot(files[name])
          /\ ~warehouse.exists)
         => (loaderResult'.error = "" /\ TableIsSnapshot(warehouse', files, name))]_vars

\* C7 amended: the same, when the schema raw exists (create_raw_schema has
\* run); without it the call raises and creates nothing.
C7_FirstLoadCreatesTableInSchema ==
  [][\A name \in DOMAIN files :
       (IsLoadJsonFileStep(name) /\ IsSnapshot(files[name])
          /\ ~warehouse.exists)
         => IF warehouse.schema
            THEN loaderResult'.error = "" /\ TableIsSnapshot(warehouse', files, name)
            ELSE loaderResult'.error # "" /\ warehouse' = warehouse]_vars

C7_Witness ==
  /\ loaderResult.op = "load_json_file" /\ loaderResult.error = ""
  /\ loaderResult.file \in DOMAIN files
  /\ IsSnapshot(files[loaderResult.file])
  /\ TableIsSnapshot(warehouse, files, loaderResult.file)
  /\ Len(warehouse.rows) >= 1
  /\ Len(warehouse.columns) >= 4

\* C8: once the table exists it stays, every column keeps its place, name and
\* type, and every row stays: a call of the loader only appends rows or adds
\* columns.
C8_TableOnlyGrows ==
  [][warehouse.exists =>
       /\ warehouse'.exists
       /\ Len(warehouse'.columns) >= Len(warehouse.columns)
       /\ \A i \in 1..Len(warehouse.columns) :
            warehouse'.columns[i] = warehouse.columns[i]
       /\ Len(warehouse'.rows) >= Len(warehouse.rows)
       /\ \A i \in 1..Len(warehouse.rows) :
            warehouse'.rows[i] = warehouse.rows[i]]_vars

C8_Witness ==
  /\ warehouse.exists
  /\ Len(warehouse.rows) >= 1
  /\ loaderResult.op = "load_json_file"
  /\ loaderResult.error = "BinderError"

\* C9: no load puts a snapshot's values into a column of another name: every
\* cell of the table is in the column it is named after.
C9_NoValueUnderAnotherName ==
  \A i \in 1..Len(warehouse.rows) :
    warehouse.rows[i].cells = ColumnNames(warehouse.columns)

\* C10: load_raw_directory on a directory of well-formed snapshots of one
\* schema and one malformed file, the table absent or of that schema, loads
\* every well-formed snapshot and reports the malformed file as failed,
\* whatever the order, each file once, without raising.
WellFormed(contents) ==
  \E n \in 1..MaxSnapshotRecords : contents = Snapshot(ApiFields, n)

Malformed(contents) == contents \in {Unparseable, ErrorObject}

OneMalformedAmongWellFormed(fs) ==
  LET snaps == {name \in DOMAIN fs : IsPlacesFile(name)}
  IN  /\ Cardinality({name \in snaps : Malformed(fs[name])}) = 1
      /\ \E name \in snaps : WellFormed(fs[name])
      /\ \A name \in snaps : Malformed(fs[name]) \/ WellFormed(fs[name])

TableFits(db) ==
  db.schema /\ (db.exists => db.columns = ApiFields \o LoadMetadata)

C10_DirectoryLoadIsolatesFailures ==
  [][(/\ loaderResult'.calls = loaderResult.calls + 1
      /\ loaderResult'.op = "load_raw_directory"
      /\ OneMalformedAmongWellFormed(files)
      /\ TableFits(warehouse))
       => /\ loaderResult'.error = ""
          /\ Len(loaderResult'.outcomes) = Cardinality(DOMAIN files)
          /\ \A name \in DOMAIN files :
               \E i \in 1..Len(loaderResult'.outcomes) :
                 loaderResult'.outcomes[i] =
                   <<name, IF ~IsPlacesFile(name) THEN "skipped"
                           ELSE IF WellFormed(files[name]) THEN "loaded"
                           ELSE "failed">>]_vars

\* The rows of the table that came from the snapshot `name`.
RowsOf(db, name) ==
  SelectSeq(db.rows, LAMBDA row : row.source_file = name)

\* C11: loading a snapshot that is already loaded (load_json_file on the same
\* path again, load_raw_directory over the same directory again) leaves the
\* table with the same records: no row of that snapshot is added again.
C11_ReloadAddsNoRows ==
  [][\A name \in DOMAIN files :
       (/\ loaderResult'.calls = loaderResult.calls + 1
        /\ IsSnapshot(files[name])
        /\ RowsOf(warehouse, name) # <<>>)
         => RowsOf(warehouse', name) = RowsOf(warehouse, name)]_vars

\* The names of the four checks, in the order of run_all_checks.
CheckNames ==
  <<"Data Freshness", "Record Counts", "Null Values Check", "Date Range Check">>

\* A call that ran all checks: run_all_checks(), directly or from main().
RanAllChecks == checkResult.op \in {"run_all_checks", "main"}

\* C12: run_all_checks returns, on every warehouse (table missing, empty,
\* without an expected column, with any rows), a report whose checks are one
\* result per check in the order freshness, record counts, null values, date
\* ranges; a check that raises yields ERROR and the checks after it still run.
C12_RunAllChecksIsTotal ==
  RanAllChecks =>
    /\ checkResult.checks = results.checks
    /\ Len(results.checks) = Len(CheckNames)
    /\ \A i \in 1..Len(results.checks) :
         /\ results.checks[i].name = CheckNames[i]
         /\ results.checks[i].status \in {"PASS", "FAIL", "ERROR"}
    /\ results.summary.total_checks = Len(CheckNames)
    /\ TableMissing(warehouse) =>
         \A i \in 1..Len(results.checks) : results.checks[i].status = "ERROR"

C12_Witness ==
  /\ checkResult.op = "run_all_checks"
  /\ Len(results.checks) = 4
  /\ results.checks[1].status = "PASS"
  /\ results.checks[3].status = "ERROR"
  /\ results.checks[4].status = "PASS"

\* C13: every report has summary.status = PASS exactly when summary.failed =
\* 0, and summary.passed + summary.failed = summary.total_checks, on every
\* warehouse and also when the checker has executed checks before.
C13_SummaryIsConsistent ==
  RanAllChecks =>
    /\ results.summary.status = "PASS" <=> results.summary.failed = 0
    /\ results.summary.passed + results.summary.failed
         = results.summary.total_checks

\* C14: the overall status of a report is PASS exactly when none of the
\* results in that report's checks has status FAIL or ERROR, whatever the
\* checker ran before.
C14_StatusIsOfThisRun ==
  RanAllChecks =>
    (results.summary.status = "PASS"
       <=> \A i \in 1..Len(results.checks) :
             results.checks[i].status \notin {"FAIL", "ERROR"})

\* A call that ran check_data_freshness, directly or in run_all_checks, and
\* the result of the check.
FreshnessReturned ==
  checkResult.op \in {"check_data_freshness", "run_all_checks", "main"}
FreshnessResult == checkResult.checks[1]

\* The age of the newest row at the instant of the call.
NewestAge == now - SetMax(LoadedAt(warehouse))

HasRows(db) == ~TableMissing(db) /\ db.rows # <<>>

\* C15: check_data_freshness(max_hours_old) returns PASS exactly when the
\* table has rows and now - max(loaded_at) <= max_hours_old hours (an age
\* equal to the threshold passes), FAIL exactly when it has rows and the age
\* is above the threshold, and ERROR when there are no rows.
C15_FreshnessOutcome ==
  FreshnessReturned =>
    /\ FreshnessResult.status = "PASS"
         <=> /\ HasRows(warehouse)
             /\ NewestAge <= checkResult.max_hours_old * TicksPerHour
    /\ FreshnessResult.status = "FAIL"
         <=> /\ HasRows(warehouse)
             /\ NewestAge > checkResult.max_hours_old * TicksPerHour
    /\ ~HasRows(warehouse) => FreshnessResult.status = "ERROR"
    /\ FreshnessResult.status \in {"PASS", "FAIL", "ERROR"}

\* The newest row is exactly as old as the default threshold, and passes.
C15_Witness ==
  /\ FreshnessReturned
  /\ checkResult.max_hours_old = DefaultMaxHoursOld
  /\ HasRows(warehouse)
  /\ NewestAge = DefaultMaxHoursOld * TicksPerHour
  /\ FreshnessResult.status = "PASS"

\* A call that ran check_record_counts, and the result of the check.
RecordCountsReturned ==
  checkResult.op \in {"check_record_counts", "run_all_checks", "main"}
RecordCountsResult ==
  IF checkResult.op = "check_record_counts" THEN checkResult.checks[1]
  ELSE checkResult.checks[2]

\* The table exists and holds no row.
EmptyTable(db) == ~TableMissing(db) /\ db.rows = <<>>

\* C16: on an empty warehouse the freshness check yields a result that is
\* not PASS and carries the reason "No data loaded", and the record-count
\* check yields FAIL with total_records = 0 in its details; in general the
\* record-count check returns PASS when the table has rows and FAIL when it
\* has none.
C16_EmptyWarehouseReported ==
  /\ (FreshnessReturned /\ EmptyTable(warehouse)) =>
       /\ FreshnessResult.status \in {"FAIL", "ERROR"}
       /\ "reason" \in DOMAIN FreshnessResult
       /\ FreshnessResult.reason = "No data loaded"
  /\ (RecordCountsReturned /\ ~TableMissing(warehouse)) =>
       /\ RecordCountsResult.status =
            IF Len(warehouse.rows) > 0 THEN "PASS" ELSE "FAIL"
       /\ EmptyTable(warehouse) =>
            /\ "total_records" \in DOMAIN RecordCountsResult
            /\ RecordCountsResult.total_records = 0

\* A call that ran check_null_values, and the result of the check.
NullValuesReturned ==
  checkResult.op \in {"check_null_values", "run_all_checks", "main"}
NullValuesResult ==
  IF checkResult.op = "check_null_values" THEN checkResult.checks[1]
  ELSE checkResult.checks[3]

\* The table exists with the columns of the null check, and has rows.
NullCheckApplies(db) ==
  /\ HasRows(db)
  /\ \A name \in NullCheckColumns : HasColumn(db, name)

\* C17: check_null_values returns PASS exactly when stateabbr and countyname
\* hold no NULL; with a NULL in a key column it returns FAIL, never ERROR,
\* together with the exact null count of each key column.
C17_NullsFailWithCounts ==
  (NullValuesReturned /\ NullCheckApplies(warehouse)) =>
    IF NullCount(warehouse, "stateabbr") = 0
         /\ NullCount(warehouse, "countyname") = 0
    THEN NullValuesResult.status = "PASS"
    ELSE /\ NullValuesResult.status = "FAIL"
         /\ \E states_key, counties_key \in DOMAIN NullValuesResult :
              /\ states_key # counties_key
              /\ NullValuesResult[states_key] = NullCount(warehouse, "stateabbr")
              /\ NullValuesResult[counties_key] =
                   NullCount(warehouse, "countyname")

\* A call that ran check_date_ranges, and the result of the check.
DateRangesReturned ==
  checkResult.op \in {"check_date_ranges", "run_all_checks", "main"}
DateRangesResult ==
  IF checkResult.op = "check_date_ranges" THEN checkResult.checks[1]
  ELSE checkResult.checks[4]

\* The result reports min_date, max_date and the number of distinct dates.
ReportsDates(res, db) ==
  /\ {"min_date", "max_date", "distinct_dates"} \subseteq DOMAIN res
  /\ res.min_date = SetMin(LoadedAt(db))
  /\ res.max_date = SetMax(LoadedAt(db))
  /\ res.distinct_dates =
       Cardinality({at \div TicksPerDay : at \in LoadedAt(db)})

\* C18 as stated: check_date_ranges returns PASS exactly when the newest
\* loaded_at is at most 7 days before now (an age of exactly 7 days passes)
\* and FAIL otherwise, and with dated rows the result reports min_date,
\* max_date and the distinct-date count.
C18_RecentWithinSevenDays ==
  (DateRangesReturned /\ HasRows(warehouse)) =>
    /\ DateRangesResult.status =
         IF NewestAge <= RecentDays * TicksPerDay THEN "PASS" ELSE "FAIL"
    /\ ReportsDates(DateRangesResult, warehouse)

\* C18 amended: PASS exactly when the newest loaded_at is less than 7 days
\* before now (an age of exactly 7 days fails) and FAIL otherwise when the
\* table exists, ERROR when it does not; with dated rows the result reports
\* min_date, max_date and the distinct-date count.
C18_RecentBelowSevenDays ==
  DateRangesReturned =>
    /\ HasRows(warehouse) =>
         /\ DateRangesResult.status =
              IF NewestAge < RecentDays * TicksPerDay THEN "PASS" ELSE "FAIL"
         /\ ReportsDates(DateRangesResult, warehouse)
    /\ EmptyTable(warehouse) => DateRangesResult.status = "FAIL"
    /\ TableMissing(warehouse) => DateRangesResult.status = "ERROR"

\* The newest row is one tick short of 7 days old and passes.
C18_Witness ==
  /\ checkResult.op = "check_date_ranges"
  /\ HasRows(warehouse)
  /\ NewestAge = RecentDays * TicksPerDay - 1
  /\ DateRangesResult.status = "PASS"
  /\ DateRangesResult.distinct_dates = 2

\* C19: an entry point exits 0 only if its batch succeeded: the quality
\* main exits non-zero exactly when the report's status is FAIL, the loader
\* main exits non-zero whenever a snapshot file failed to load, the
\* extraction main exits non-zero when the extraction failed.
C19_ExitCodeReflectsFailure ==
  /\ (exitCode.stage = "quality" /\ checkResult.op = "main") =>
       (exitCode.code # 0 <=> results.summary.status = "FAIL")
  /\ (exitCode.stage = "loader" /\ loaderResult.op = "main") =>
       ((\E i \in 1..Len(loaderResult.outcomes) :
           loaderResult.outcomes[i][2] = "failed")
          => exitCode.code # 0)
  /\ runPc = "raised" => ExtractionExitCode(runPc) # 0

====
